---------------------------- MODULE Spec2Model ----------------------------
(***************************************************************************)
(* Chunked story upload / reassembly of the story controller               *)
(* (createStory, editStory, deleteStory and the handlers that read or      *)
(* decorate stories), over the Story and StoryChunk tables.                *)
(*                                                                         *)
(* A request is a process: it is received (its synchronous prefix runs:    *)
(* flag extraction and schema validation), and then takes one step per     *)
(* awaited database call, in the order of the source.  The database is the *)
(* pair of tables story / storyChunk (plus comments and likes).            *)
(***************************************************************************)
EXTENDS Integers, Sequences, FiniteSets, TLC

(***************************************************************************)
(* Bounds of the model.                                                    *)
(***************************************************************************)
MaxStories == 2
MaxTotalChunks == 2
MaxRequests == 2
MaxFailures == 1

\* Requests in the run of one author working on one story.
MaxOwnerRequests == 3

\* Requests in the run in which a story is created, decorated and deleted.
MaxDeleteRequests == 4

\* Requests in the run of non-chunked creations with short and long texts.
MaxPlainRequests == 2

\* Requests in the run in which chunks of one story are served concurrently.
MaxRaceRequests == 3

\* Requests in the run in which middle chunks of one upload are resubmitted.
MaxMiddleRequests == 4

\* Requests in the run in which uploads, edits and deletions are served
\* concurrently.
MaxChurnRequests == 3

\* Requests in the run in which requests are refused.
MaxRefusalRequests == 2

\* The students with an account (verifyJWT admits no one else), and the
\* request slots of the server.
Students == {"ann", "bob"}
StoryIds == 1..MaxStories
Procs == {"r1"}

\* Chunk texts a client sends; "" is the empty string the schemas reject.
Texts == {"a", "b"}
TextInputs == Texts \cup {""}

VARIABLES
  story,      \* table Story: id -> row, for the ids that exist
  storyChunk, \* table StoryChunk: storyId -> row, for the trackers that exist
  comments,   \* table Comment, as the number of comments per story id
  likes,      \* table Like, as the set of <<storyId, userId>>
  nextId,     \* the next fresh story id (ids are never reused)
  req,        \* per request slot: the request, its locals, its position
  listed,     \* the rows returned by the last getStories
  s3Deleted,  \* urls handed to deleteSingleObjectFromS3 so far
  nreq,       \* requests received so far
  failures,   \* database writes that failed for an outside reason so far
  sess        \* observer: per story, the in-order create session so far

vars == <<story, storyChunk, comments, likes, nextId, req, listed, s3Deleted,
          nreq, failures, sess>>

(***************************************************************************)
(* JavaScript / Prisma values.                                             *)
(***************************************************************************)
Has(b, f) == f \in DOMAIN b

\* x || d for an optional string field: absent and "" are falsy.
StrOr(b, f, d) == IF Has(b, f) /\ b[f] # "" THEN b[f] ELSE d

\* x || d for an optional number field: absent and 0 are falsy.
NumOr(b, f, d) == IF Has(b, f) /\ b[f] # 0 THEN b[f] ELSE d

\* A nullable column holding NULL.
NullTitle == "NULL"

\* An optional value: the empty set, or the singleton of the value.
None == {}
Some(x) == {x}
The(S) == CHOOSE x \in S : TRUE

\* prisma update: the columns named in data are overwritten, the rest kept.
Update(row, data) ==
  [f \in DOMAIN row |-> IF f \in DOMAIN data THEN data[f] ELSE row[f]]

Insert(table, id, row) == table @@ (id :> row)
Remove(table, id) == [i \in (DOMAIN table) \ {id} |-> table[i]]

(***************************************************************************)
(* Column defaults of the schema.                                          *)
(***************************************************************************)
StoryIsCompleteDefault == TRUE
StoryChunkIsCompleteDefault == FALSE

(***************************************************************************)
(* Request flags, as the handlers extract them from the body.              *)
(***************************************************************************)
IsChunk(b) == Has(b, "isChunk") /\ b.isChunk = TRUE
ChunkIndex(b) == IF Has(b, "chunkIndex") THEN b.chunkIndex ELSE 0
TotalChunks(b) == IF Has(b, "totalChunks") /\ b.totalChunks # 0 THEN b.totalChunks ELSE 1
BodyStoryId(b) == IF Has(b, "storyId") THEN b.storyId ELSE 0
IsFinalChunk(b) == ChunkIndex(b) = TotalChunks(b) - 1

(***************************************************************************)
(* Schemas.                                                                *)
(***************************************************************************)
ContentMax == 2500
TitleMin == 2
TitleMax == 100
EditTitleMax == 50

TitleOk(b, max) == Has(b, "title") => (Len(b.title) >= TitleMin /\ Len(b.title) <= max)

\* Mutant: the content's upper limit is forgotten.
CreateStorySchemaNoMax(b) ==
  /\ Has(b, "content") /\ Len(b.content) >= 1
  /\ TitleOk(b, TitleMax)

CreateStorySchema(b) ==
  /\ Has(b, "content") /\ Len(b.content) >= 1 /\ Len(b.content) <= ContentMax
  /\ TitleOk(b, TitleMax)

ChunkStorySchema(b) ==
  /\ Has(b, "content") /\ Len(b.content) >= 1
  /\ TitleOk(b, TitleMax)
  /\ Has(b, "chunkIndex") /\ b.chunkIndex >= 0
  /\ Has(b, "totalChunks") /\ b.totalChunks >= 1

EditStorySchema(b) ==
  /\ Has(b, "content") /\ Len(b.content) >= 1
  /\ TitleOk(b, EditTitleMax)
  /\ Has(b, "chunkIndex") => b.chunkIndex >= 0
  /\ Has(b, "totalChunks") => b.totalChunks >= 1

(***************************************************************************)
(* The messages of the issues a schema raises (error.errors.map(e =>       *)
(* e.message)), field by field in the order of the schema's keys.          *)
(***************************************************************************)
\* content: z.string().min(1, empty), and .max(max, long) when max > 0.
ContentErrors(b, empty, max, long) ==
  IF ~Has(b, "content") THEN <<"Required">>
  ELSE IF Len(b.content) < 1 THEN <<empty>>
  ELSE IF max > 0 /\ Len(b.content) > max THEN <<long>>
  ELSE <<>>

\* title: z.string().min(2, ...).max(max, long).optional().
TitleErrors(b, max, long) ==
  IF ~Has(b, "title") THEN <<>>
  ELSE IF Len(b.title) < TitleMin THEN <<"Title must be at least 2 characters long">>
  ELSE IF Len(b.title) > max THEN <<long>>
  ELSE <<>>

\* z.number().int().min(least), required or optional.
NumberErrors(b, f, least, required) ==
  IF ~Has(b, f) THEN (IF required THEN <<"Required">> ELSE <<>>)
  ELSE IF b[f] < least
    THEN <<IF least = 0 THEN "Number must be greater than or equal to 0"
                        ELSE "Number must be greater than or equal to 1">>
  ELSE <<>>

CreateStoryErrors(b) ==
  ContentErrors(b, "Story content cannot be empty", ContentMax,
                "Story content cannot exceed 2500 characters")
    \o TitleErrors(b, TitleMax, "Title cannot exceed 100 characters")

ChunkStoryErrors(b) ==
  ContentErrors(b, "Chunk content cannot be empty", 0, "")
    \o TitleErrors(b, TitleMax, "Title cannot exceed 100 characters")
    \o NumberErrors(b, "chunkIndex", 0, TRUE)
    \o NumberErrors(b, "totalChunks", 1, TRUE)

EditStoryErrors(b) ==
  TitleErrors(b, EditTitleMax, "Title cannot exceed 50 characters")
    \o ContentErrors(b, "Story content cannot be empty", 0, "")
    \o NumberErrors(b, "chunkIndex", 0, FALSE)
    \o NumberErrors(b, "totalChunks", 1, FALSE)

(***************************************************************************)
(* Request slots.                                                          *)
(***************************************************************************)
NoBody == [content |-> ""]

Idle ==
  [pc |-> "idle", op |-> "none", user |-> "", storyId |-> 0, body |-> NoBody,
   existingStory |-> None, chunkTracker |-> None, status |-> 0, created |-> 0,
   writes |-> <<>>, errors |-> <<>>, deleted |-> {}]

Received(o, u, sid, b, at) ==
  [pc |-> at, op |-> o, user |-> u, storyId |-> sid, body |-> b,
   existingStory |-> None, chunkTracker |-> None, status |-> 0, created |-> 0,
   writes |-> <<>>, errors |-> <<>>, deleted |-> {}]

Respond(r, code) == [r EXCEPT !.pc = "done", !.status = code]

\* The ZodError answer: 400 with the messages of the issues.
Reject(r, messages) == [Respond(r, 400) EXCEPT !.errors = messages]

\* The request has completed a write to table t (writes: the tables it wrote,
\* in the order the awaited calls returned).
Wrote(r, t) == [r EXCEPT !.writes = Append(@, t)]

\* The request has handed the urls to deleteSingleObjectFromS3 (deleted: the
\* urls this request had deleted).
Deleted(r, urls) == [r EXCEPT !.deleted = @ \cup urls]

\* A slot is free before its first request and after each response.
Free(p) == req[p].pc \in {"idle", "done"}

\* Serial execution: a request is received only when no other is in flight.
Quiet(p) == \A q \in (DOMAIN req) \ {p} : Free(q)

(***************************************************************************)
(* Observer of in-order create sessions (no effect on the program): for a  *)
(* story created by chunk 0, the chunks accepted so far when they came     *)
(* serially, in index order, with the declared total, and nothing else     *)
(* named the story.                                                        *)
(***************************************************************************)
InOrder(s, b) ==
  /\ s.clean
  /\ ChunkIndex(b) = s.next
  /\ TotalChunks(b) = s.total
  /\ s.next < s.total

Spoil(ss, sid) ==
  IF sid \in DOMAIN ss THEN [ss EXCEPT ![sid].clean = FALSE] ELSE ss

\* A request is received: it continues the session it names, or spoils it.
SessReceived(ss, r) ==
  IF /\ r.op = "createStory" /\ r.pc = "cs_findStory"
     /\ r.storyId \in DOMAIN ss /\ InOrder(ss[r.storyId], r.body)
    THEN ss
    ELSE Spoil(ss, r.storyId)

SessOpened(ss, sid, b) ==
  Insert(ss, sid, [next |-> 1, total |-> TotalChunks(b), acc |-> b.content, clean |-> TRUE])

SessAppended(ss, sid, b) ==
  IF sid \in DOMAIN ss /\ InOrder(ss[sid], b)
    THEN [ss EXCEPT ![sid].next = @ + 1, ![sid].acc = @ \o b.content]
    ELSE Spoil(ss, sid)

(***************************************************************************)
(* createStory: the rows it writes.                                        *)
(***************************************************************************)
\* Mutant: the non-chunked creation writes a draft.
NewStoryRowDraft(b, u) ==
  [studentId |-> u,
   title |-> IF Has(b, "title") THEN b.title ELSE NullTitle,
   content |-> b.content,
   image |-> StrOr(b, "image", ""),
   audio |-> StrOr(b, "audio", ""),
   audioDuration |-> NumOr(b, "audioDuration", 0),
   isComplete |-> FALSE]

\* prisma.story.create of a non-chunked creation; isComplete is left to the
\* column default.
NewStoryRow(b, u) ==
  [studentId |-> u,
   title |-> IF Has(b, "title") THEN b.title ELSE NullTitle,
   content |-> b.content,
   image |-> StrOr(b, "image", ""),
   audio |-> StrOr(b, "audio", ""),
   audioDuration |-> NumOr(b, "audioDuration", 0),
   isComplete |-> StoryIsCompleteDefault]

\* prisma.story.create of chunk 0.
FirstChunkStoryRow(b, u) ==
  [studentId |-> u,
   title |-> StrOr(b, "title", "Draft Story"),
   content |-> b.content,
   image |-> StrOr(b, "image", ""),
   audio |-> StrOr(b, "audio", ""),
   audioDuration |-> NumOr(b, "audioDuration", 0),
   isComplete |-> FALSE]

\* Mutant: the tracker of a single-chunk upload is created complete, while
\* the story is created as a draft.
FirstChunkTrackerRowCompleting(b) ==
  [content |-> b.content,
   chunkIndex |-> 0,
   receivedChunks |-> 1,
   totalChunks |-> TotalChunks(b),
   isComplete |-> (TotalChunks(b) = 1)]

\* prisma.storyChunk.create of chunk 0; isComplete is left to the column default.
FirstChunkTrackerRow(b) ==
  [content |-> b.content,
   chunkIndex |-> 0,
   receivedChunks |-> 1,
   totalChunks |-> TotalChunks(b),
   isComplete |-> StoryChunkIsCompleteDefault]

\* Mutant: the lookup forgets the studentId filter.
FindDraftStoryAnyOwner(st, sid, u) ==
  IF sid \in DOMAIN st /\ st[sid].isComplete = FALSE THEN Some(st[sid]) ELSE None

\* Mutant: the lookup forgets the isComplete filter.
FindDraftStoryAnyState(st, sid, u) ==
  IF sid \in DOMAIN st /\ st[sid].studentId = u THEN Some(st[sid]) ELSE None

\* prisma.story.findFirst({id, studentId, isComplete: false}).
FindDraftStory(st, sid, u) ==
  IF sid \in DOMAIN st /\ st[sid].studentId = u /\ st[sid].isComplete = FALSE
    THEN Some(st[sid]) ELSE None

\* Mutant: a missing tracker is taken for an empty one.
FindTrackerOrBlank(ch, sid) ==
  IF sid \in DOMAIN ch
    THEN Some(ch[sid])
    ELSE Some([content |-> "", chunkIndex |-> 0, receivedChunks |-> 0,
               totalChunks |-> 1, isComplete |-> FALSE])

\* prisma.storyChunk.findUnique({storyId}).
FindTracker(ch, sid) == IF sid \in DOMAIN ch THEN Some(ch[sid]) ELSE None

\* Mutant: the chunk is put in front of the stored content.
AppendStoryDataPrepend(existing, b) ==
  IF IsFinalChunk(b)
    THEN [content |-> b.content \o existing.content,
          title |-> StrOr(b, "title", existing.title),
          image |-> StrOr(b, "image", existing.image),
          audio |-> StrOr(b, "audio", existing.audio),
          audioDuration |-> NumOr(b, "audioDuration", existing.audioDuration),
          isComplete |-> TRUE]
    ELSE [content |-> b.content \o existing.content]

\* Mutant: every later chunk applies the metadata, not only the final one.
AppendStoryDataWithMedia(existing, b) ==
  [content |-> existing.content \o b.content,
   title |-> StrOr(b, "title", existing.title),
   image |-> StrOr(b, "image", existing.image),
   audio |-> StrOr(b, "audio", existing.audio),
   audioDuration |-> NumOr(b, "audioDuration", existing.audioDuration)]
    @@ (IF IsFinalChunk(b) THEN [isComplete |-> TRUE] ELSE <<>>)

\* data of prisma.story.update for a chunk after the first.
AppendStoryData(existing, b) ==
  IF IsFinalChunk(b)
    THEN [content |-> existing.content \o b.content,
          title |-> StrOr(b, "title", existing.title),
          image |-> StrOr(b, "image", existing.image),
          audio |-> StrOr(b, "audio", existing.audio),
          audioDuration |-> NumOr(b, "audioDuration", existing.audioDuration),
          isComplete |-> TRUE]
    ELSE [content |-> existing.content \o b.content]

\* Mutant: a chunk whose index the tracker has counted already is not applied
\* to the tracker again.
AppendTrackerDataOnce(tracker, b) ==
  IF tracker.receivedChunks > ChunkIndex(b)
    THEN [receivedChunks |-> tracker.receivedChunks,
          content |-> tracker.content,
          isComplete |-> IsFinalChunk(b)]
    ELSE [receivedChunks |-> tracker.receivedChunks + 1,
          content |-> tracker.content \o b.content,
          isComplete |-> IsFinalChunk(b)]

\* data of prisma.storyChunk.update for a chunk after the first.
AppendTrackerData(tracker, b) ==
  [receivedChunks |-> tracker.receivedChunks + 1,
   content |-> tracker.content \o b.content,
   isComplete |-> IsFinalChunk(b)]

(***************************************************************************)
(* createStory, step by step.                                              *)
(***************************************************************************)
\* Whether a creation still has a fresh id to take (ids are bounded here).
IdsLeft ==
  nextId + Cardinality({q \in DOMAIN req : req[q].pc \in {"cs_create", "cs_createFirst"}})
    <= MaxStories

\* Where a createStory request goes after its synchronous prefix: the flags,
\* the schema, the author lookup, the branch.
CreateEntry(u, b) ==
  IF ~(IF IsChunk(b) THEN ChunkStorySchema(b) ELSE CreateStorySchema(b))
    THEN Reject(Received("createStory", u, BodyStoryId(b), b, "done"),
                IF IsChunk(b) THEN ChunkStoryErrors(b) ELSE CreateStoryErrors(b))
  ELSE IF u \notin Students
    THEN Respond(Received("createStory", u, BodyStoryId(b), b, "done"), 403)
  ELSE IF ~IsChunk(b)
    THEN Received("createStory", u, BodyStoryId(b), b, "cs_create")
  ELSE IF ChunkIndex(b) = 0
    THEN Received("createStory", u, BodyStoryId(b), b, "cs_createFirst")
  ELSE IF BodyStoryId(b) = 0
    THEN Respond(Received("createStory", u, 0, b, "done"), 400)
  ELSE Received("createStory", u, BodyStoryId(b), b, "cs_findStory")

\* A createStory request of one of the users, with one of the bodies, is
\* received while fewer than limit requests have been.
ReceiveCreateOf(p, users, bodies, limit) ==
  /\ Free(p)
  /\ nreq < limit
  /\ \E u \in users, b \in bodies :
       /\ CreateEntry(u, b).pc \in {"cs_create", "cs_createFirst"} => IdsLeft
       /\ req' = [req EXCEPT ![p] = CreateEntry(u, b)]
       /\ sess' = SessReceived(sess, CreateEntry(u, b))
  /\ nreq' = nreq + 1
  /\ UNCHANGED <<story, storyChunk, comments, likes, nextId, listed, s3Deleted, failures>>

ReceiveCreate(p, bodies) ==
  Quiet(p) /\ ReceiveCreateOf(p, Students, bodies, MaxRequests)

\* prisma.story.create, non-chunked.
CsCreate(p) ==
  /\ req[p].pc = "cs_create"
  /\ story' = Insert(story, nextId, NewStoryRow(req[p].body, req[p].user))
  /\ nextId' = nextId + 1
  /\ req' = [req EXCEPT ![p] = [Respond(Wrote(req[p], "story"), 201) EXCEPT !.created = nextId]]
  /\ UNCHANGED <<storyChunk, comments, likes, listed, s3Deleted, nreq, failures, sess>>

\* Mutant: chunk 0 that names a draft of the author restarts that story
\* instead of creating one.
CsCreateFirstResuming(p) ==
  /\ req[p].pc = "cs_createFirst"
  /\ LET sid == BodyStoryId(req[p].body) IN
       IF FindDraftStory(story, sid, req[p].user) # None
         THEN /\ story' = [story EXCEPT ![sid] = Update(@, [content |-> req[p].body.content])]
              /\ nextId' = nextId
              /\ req' = [req EXCEPT ![p] = [Wrote(req[p], "story")
                                              EXCEPT !.pc = "cs_createTracker", !.created = sid]]
         ELSE /\ story' = Insert(story, nextId, FirstChunkStoryRow(req[p].body, req[p].user))
              /\ nextId' = nextId + 1
              /\ req' = [req EXCEPT ![p] = [Wrote(req[p], "story")
                                              EXCEPT !.pc = "cs_createTracker", !.created = nextId]]
  /\ UNCHANGED <<storyChunk, comments, likes, listed, s3Deleted, nreq, failures, sess>>

\* prisma.story.create, chunk 0.
CsCreateFirst(p) ==
  /\ req[p].pc = "cs_createFirst"
  /\ story' = Insert(story, nextId, FirstChunkStoryRow(req[p].body, req[p].user))
  /\ nextId' = nextId + 1
  /\ req' = [req EXCEPT ![p] = [Wrote(req[p], "story") EXCEPT !.pc = "cs_createTracker",
                                                               !.created = nextId]]
  /\ UNCHANGED <<storyChunk, comments, likes, listed, s3Deleted, nreq, failures, sess>>

\* Mutant: the tracker's storyId is not a foreign key, so a tracker can be
\* created for a story that is gone.
CsCreateTrackerNoForeignKey(p) ==
  /\ req[p].pc = "cs_createTracker"
  /\ IF req[p].created \notin DOMAIN storyChunk
       THEN /\ storyChunk' = Insert(storyChunk, req[p].created, FirstChunkTrackerRow(req[p].body))
            /\ req' = [req EXCEPT ![p] = Respond(Wrote(req[p], "storyChunk"), 201)]
            /\ sess' = SessOpened(sess, req[p].created, req[p].body)
       ELSE /\ req' = [req EXCEPT ![p] = Respond(req[p], 500)]
            /\ UNCHANGED <<storyChunk, sess>>
  /\ UNCHANGED <<story, comments, likes, nextId, listed, s3Deleted, nreq, failures>>

\* prisma.storyChunk.create, chunk 0: refused by the primary key when the
\* story has a tracker, by the foreign key when the story is gone.
CsCreateTracker(p) ==
  /\ req[p].pc = "cs_createTracker"
  /\ IF req[p].created \in DOMAIN story /\ req[p].created \notin DOMAIN storyChunk
       THEN /\ storyChunk' = Insert(storyChunk, req[p].created, FirstChunkTrackerRow(req[p].body))
            /\ req' = [req EXCEPT ![p] = Respond(Wrote(req[p], "storyChunk"), 201)]
            /\ sess' = SessOpened(sess, req[p].created, req[p].body)
       ELSE /\ req' = [req EXCEPT ![p] = Respond(req[p], 500)]
            /\ UNCHANGED <<storyChunk, sess>>
  /\ UNCHANGED <<story, comments, likes, nextId, listed, s3Deleted, nreq, failures>>

\* prisma.story.findFirst: the story must exist, be the author's, be a draft.
CsFindStory(p) ==
  /\ req[p].pc = "cs_findStory"
  /\ LET found == FindDraftStory(story, req[p].storyId, req[p].user) IN
       /\ req' = [req EXCEPT ![p] =
                    IF found = None THEN Respond(req[p], 404)
                    ELSE [req[p] EXCEPT !.pc = "cs_findTracker", !.existingStory = found]]
       /\ sess' = IF found = None THEN Spoil(sess, req[p].storyId) ELSE sess
  /\ UNCHANGED <<story, storyChunk, comments, likes, nextId, listed, s3Deleted, nreq, failures>>

\* prisma.storyChunk.findUnique: the tracker must exist.
CsFindTracker(p) ==
  /\ req[p].pc = "cs_findTracker"
  /\ LET found == FindTracker(storyChunk, req[p].storyId) IN
       /\ req' = [req EXCEPT ![p] =
                    IF found = None THEN Respond(req[p], 404)
                    ELSE [req[p] EXCEPT !.pc = "cs_updateStory", !.chunkTracker = found]]
       /\ sess' = IF found = None THEN Spoil(sess, req[p].storyId) ELSE sess
  /\ UNCHANGED <<story, storyChunk, comments, likes, nextId, listed, s3Deleted, nreq, failures>>

\* prisma.story.update: appends to the content read by findFirst.
CsUpdateStory(p) ==
  /\ req[p].pc = "cs_updateStory"
  /\ IF req[p].storyId \in DOMAIN story
       THEN /\ story' = [story EXCEPT ![req[p].storyId] =
                           Update(@, AppendStoryData(The(req[p].existingStory), req[p].body))]
            /\ req' = [req EXCEPT ![p] = [Wrote(req[p], "story") EXCEPT !.pc = "cs_updateTracker"]]
            /\ sess' = sess
       ELSE /\ req' = [req EXCEPT ![p] = Respond(req[p], 500)]
            /\ sess' = Spoil(sess, req[p].storyId)
            /\ story' = story
  /\ UNCHANGED <<storyChunk, comments, likes, nextId, listed, s3Deleted, nreq, failures>>

\* Mutant: the update is computed from the row as it is at the write (an
\* atomic increment and concatenation), not from the row read earlier.
CsUpdateTrackerInPlace(p) ==
  /\ req[p].pc = "cs_updateTracker"
  /\ IF req[p].storyId \in DOMAIN storyChunk
       THEN /\ storyChunk' = [storyChunk EXCEPT ![req[p].storyId] =
                                Update(@, AppendTrackerData(@, req[p].body))]
            /\ req' = [req EXCEPT ![p] = Respond(Wrote(req[p], "storyChunk"), 200)]
            /\ sess' = SessAppended(sess, req[p].storyId, req[p].body)
       ELSE /\ req' = [req EXCEPT ![p] = Respond(req[p], 500)]
            /\ sess' = Spoil(sess, req[p].storyId)
            /\ storyChunk' = storyChunk
  /\ UNCHANGED <<story, comments, likes, nextId, listed, s3Deleted, nreq, failures>>

\* prisma.storyChunk.update: appends to the content read by findUnique.
CsUpdateTracker(p) ==
  /\ req[p].pc = "cs_updateTracker"
  /\ IF req[p].storyId \in DOMAIN storyChunk
       THEN /\ storyChunk' = [storyChunk EXCEPT ![req[p].storyId] =
                                Update(@, AppendTrackerData(The(req[p].chunkTracker), req[p].body))]
            /\ req' = [req EXCEPT ![p] = Respond(Wrote(req[p], "storyChunk"), 200)]
            /\ sess' = SessAppended(sess, req[p].storyId, req[p].body)
       ELSE /\ req' = [req EXCEPT ![p] = Respond(req[p], 500)]
            /\ sess' = Spoil(sess, req[p].storyId)
            /\ storyChunk' = storyChunk
  /\ UNCHANGED <<story, comments, likes, nextId, listed, s3Deleted, nreq, failures>>

(***************************************************************************)
(* editStory: the rows it reads and writes.                                *)
(***************************************************************************)
\* Mutant: the lookup forgets the studentId filter.
FindOwnStoryAnyOwner(st, sid, u) ==
  IF sid \in DOMAIN st THEN Some(st[sid]) ELSE None

\* prisma.story.findUnique({id, studentId}).
FindOwnStory(st, sid, u) ==
  IF sid \in DOMAIN st /\ st[sid].studentId = u THEN Some(st[sid]) ELSE None

\* The urls editStory hands to deleteSingleObjectFromS3.
EditObjectsToDelete(b) ==
  (IF Has(b, "imageBeforeChange") /\ b.imageBeforeChange # "" THEN {b.imageBeforeChange} ELSE {})
    \cup
  (IF Has(b, "audioBeforeChange") /\ b.audioBeforeChange # "" THEN {b.audioBeforeChange} ELSE {})

\* The optional columns a body provides (value !== undefined).
Provided(b, fields) == [f \in (fields \cap DOMAIN b) |-> b[f]]

\* Mutant: a non-chunked edit marks the story complete.
EditDataCompleting(b) ==
  Provided(b, {"content", "image", "title", "audio", "audioDuration"}) @@ [isComplete |-> TRUE]

\* updateData of a non-chunked edit.
EditData(b) == Provided(b, {"content", "image", "title", "audio", "audioDuration"})

\* The metadata columns a first or final chunk of an edit applies: the title
\* when truthy, the others when provided.
EditMetaData(b) ==
  Provided(b, {"image", "audio", "audioDuration"}
                \cup (IF Has(b, "title") /\ b.title # "" THEN {"title"} ELSE {}))

\* Mutant: the reset forgets the content.
EditResetTrackerDataKeepContent(b) ==
  [receivedChunks |-> 1,
   totalChunks |-> TotalChunks(b),
   isComplete |-> (TotalChunks(b) = 1)]

\* data of prisma.storyChunk.update resetting the tracker on chunk 0.
EditResetTrackerData(b) ==
  [content |-> b.content,
   receivedChunks |-> 1,
   totalChunks |-> TotalChunks(b),
   isComplete |-> (TotalChunks(b) = 1)]

\* Mutant: the new tracker is left to the column default, as on the create path.
EditFirstTrackerRowIncomplete(b) ==
  [content |-> b.content,
   chunkIndex |-> 0,
   receivedChunks |-> 1,
   totalChunks |-> TotalChunks(b),
   isComplete |-> StoryChunkIsCompleteDefault]

\* prisma.storyChunk.create on chunk 0 of an edit.
EditFirstTrackerRow(b) ==
  [content |-> b.content,
   chunkIndex |-> 0,
   receivedChunks |-> 1,
   totalChunks |-> TotalChunks(b),
   isComplete |-> (TotalChunks(b) = 1)]

\* updateData of chunk 0 of an edit.
EditFirstStoryData(b) ==
  [content |-> b.content, isComplete |-> (TotalChunks(b) = 1)] @@ EditMetaData(b)

\* Mutant: the chunk replaces the tracker's content instead of extending it.
EditAppendTrackerDataOverwrite(tracker, b) ==
  [content |-> b.content,
   receivedChunks |-> tracker.receivedChunks + 1,
   isComplete |-> IsFinalChunk(b)]

\* data of prisma.storyChunk.update for a later chunk of an edit.
EditAppendTrackerData(tracker, b) ==
  [content |-> tracker.content \o b.content,
   receivedChunks |-> tracker.receivedChunks + 1,
   isComplete |-> IsFinalChunk(b)]

\* updateData of a later chunk of an edit: the tracker's content plus the chunk.
EditAppendStoryData(tracker, b) ==
  [content |-> tracker.content \o b.content, isComplete |-> IsFinalChunk(b)]
    @@ (IF IsFinalChunk(b) THEN EditMetaData(b) ELSE <<>>)

(***************************************************************************)
(* editStory, step by step.                                                *)
(***************************************************************************)
EditEntry(u, sid, b) ==
  IF ~EditStorySchema(b)
    THEN Reject(Received("editStory", u, sid, b, "done"), EditStoryErrors(b))
    ELSE Received("editStory", u, sid, b, "es_findStory")

ReceiveEditOf(p, users, sids, bodies, limit) ==
  /\ Free(p)
  /\ nreq < limit
  /\ \E u \in users, sid \in sids, b \in bodies :
       /\ req' = [req EXCEPT ![p] = EditEntry(u, sid, b)]
       /\ sess' = SessReceived(sess, EditEntry(u, sid, b))
  /\ nreq' = nreq + 1
  /\ UNCHANGED <<story, storyChunk, comments, likes, nextId, listed, s3Deleted, failures>>

ReceiveEdit(p, bodies) ==
  Quiet(p) /\ ReceiveEditOf(p, Students, StoryIds, bodies, MaxRequests)

\* Where an edit goes once its story is found and the old objects are deleted.
EditBranch(b) ==
  IF ~IsChunk(b)
    THEN IF DOMAIN EditData(b) = {} THEN "done" ELSE "es_update"
    ELSE IF ChunkIndex(b) = 0 THEN "es_findTracker0" ELSE "es_findTracker"

\* prisma.story.findUnique, then deleteSingleObjectFromS3 of the replaced
\* image and audio, then the branch on isChunk and chunkIndex.
EsFindStory(p) ==
  /\ req[p].pc = "es_findStory"
  /\ LET found == FindOwnStory(story, req[p].storyId, req[p].user)
         b == req[p].body
     IN IF found = None
          THEN /\ req' = [req EXCEPT ![p] = Respond(req[p], 404)]
               /\ s3Deleted' = s3Deleted
          ELSE /\ s3Deleted' = s3Deleted \cup EditObjectsToDelete(b)
               /\ req' = [req EXCEPT ![p] =
                            IF EditBranch(b) = "done"
                              THEN Respond([Deleted(req[p], EditObjectsToDelete(b))
                                              EXCEPT !.existingStory = found], 400)
                              ELSE [Deleted(req[p], EditObjectsToDelete(b))
                                      EXCEPT !.pc = EditBranch(b), !.existingStory = found]]
  /\ UNCHANGED <<story, storyChunk, comments, likes, nextId, listed, nreq, failures, sess>>

\* prisma.story.update of a non-chunked edit.  P2025 (row gone) answers 404.
EsUpdate(p) ==
  /\ req[p].pc = "es_update"
  /\ IF req[p].storyId \in DOMAIN story
       THEN /\ story' = [story EXCEPT ![req[p].storyId] = Update(@, EditData(req[p].body))]
            /\ req' = [req EXCEPT ![p] = Respond(Wrote(req[p], "story"), 200)]
       ELSE /\ story' = story
            /\ req' = [req EXCEPT ![p] = Respond(req[p], 404)]
  /\ UNCHANGED <<storyChunk, comments, likes, nextId, listed, s3Deleted, nreq, failures, sess>>

\* prisma.storyChunk.findUnique on chunk 0 of an edit.
EsFindTracker0(p) ==
  /\ req[p].pc = "es_findTracker0"
  /\ req' = [req EXCEPT ![p].pc = "es_writeTracker0",
                        ![p].chunkTracker = FindTracker(storyChunk, req[p].storyId)]
  /\ UNCHANGED <<story, storyChunk, comments, likes, nextId, listed, s3Deleted, nreq, failures, sess>>

\* Chunk 0 of an edit: the tracker that was found is reset (P2025 when it is
\* gone by now), else one is created (refused when one exists by now, or
\* when the story is gone).
EsWriteTracker0(p) ==
  /\ req[p].pc = "es_writeTracker0"
  /\ LET sid == req[p].storyId
         b == req[p].body
     IN IF req[p].chunkTracker # None
          THEN IF sid \in DOMAIN storyChunk
                 THEN /\ storyChunk' = [storyChunk EXCEPT ![sid] = Update(@, EditResetTrackerData(b))]
                      /\ req' = [req EXCEPT ![p] = [Wrote(req[p], "storyChunk")
                                                      EXCEPT !.pc = "es_updateStory0"]]
                 ELSE /\ storyChunk' = storyChunk
                      /\ req' = [req EXCEPT ![p] = Respond(req[p], 404)]
          ELSE IF sid \in DOMAIN story /\ sid \notin DOMAIN storyChunk
                 THEN /\ storyChunk' = Insert(storyChunk, sid, EditFirstTrackerRow(b))
                      /\ req' = [req EXCEPT ![p] = [Wrote(req[p], "storyChunk")
                                                      EXCEPT !.pc = "es_updateStory0"]]
                 ELSE /\ storyChunk' = storyChunk
                      /\ req' = [req EXCEPT ![p] = Respond(req[p], 500)]
  /\ UNCHANGED <<story, comments, likes, nextId, listed, s3Deleted, nreq, failures, sess>>

\* prisma.story.update on chunk 0 of an edit: the content is replaced.
EsUpdateStory0(p) ==
  /\ req[p].pc = "es_updateStory0"
  /\ IF req[p].storyId \in DOMAIN story
       THEN /\ story' = [story EXCEPT ![req[p].storyId] = Update(@, EditFirstStoryData(req[p].body))]
            /\ req' = [req EXCEPT ![p] = Respond(Wrote(req[p], "story"), 200)]
       ELSE /\ story' = story
            /\ req' = [req EXCEPT ![p] = Respond(req[p], 404)]
  /\ UNCHANGED <<storyChunk, comments, likes, nextId, listed, s3Deleted, nreq, failures, sess>>

\* Mutant: a later chunk of an edit appends to the story before it looks for
\* the tracker, and answers 404 afterwards when there is none.
EsFindTrackerAfterStory(p) ==
  /\ req[p].pc = "es_findTracker"
  /\ LET found == FindTracker(storyChunk, req[p].storyId)
         sid == req[p].storyId
     IN IF found = None
          THEN /\ story' = IF sid \in DOMAIN story
                             THEN [story EXCEPT ![sid] =
                                     Update(@, [content |-> @.content \o req[p].body.content])]
                             ELSE story
               /\ req' = [req EXCEPT ![p] = Respond(Wrote(req[p], "story"), 404)]
          ELSE /\ story' = story
               /\ req' = [req EXCEPT ![p] = [req[p] EXCEPT !.pc = "es_updateTracker",
                                                            !.chunkTracker = found]]
  /\ UNCHANGED <<storyChunk, comments, likes, nextId, listed, s3Deleted, nreq, failures, sess>>

\* prisma.storyChunk.findUnique on a later chunk of an edit: it must exist.
EsFindTracker(p) ==
  /\ req[p].pc = "es_findTracker"
  /\ LET found == FindTracker(storyChunk, req[p].storyId) IN
       req' = [req EXCEPT ![p] =
                 IF found = None THEN Respond(req[p], 404)
                 ELSE [req[p] EXCEPT !.pc = "es_updateTracker", !.chunkTracker = found]]
  /\ UNCHANGED <<story, storyChunk, comments, likes, nextId, listed, s3Deleted, nreq, failures, sess>>

\* Mutant: a later chunk of an edit writes the story first, as the create
\* path does.
EsUpdateTrackerStoryFirst(p) ==
  /\ req[p].pc = "es_updateTracker"
  /\ IF req[p].storyId \in DOMAIN story
       THEN /\ story' = [story EXCEPT ![req[p].storyId] =
                           Update(@, EditAppendStoryData(The(req[p].chunkTracker), req[p].body))]
            /\ req' = [req EXCEPT ![p] = [Wrote(req[p], "story") EXCEPT !.pc = "es_updateStory"]]
       ELSE /\ story' = story
            /\ req' = [req EXCEPT ![p] = Respond(req[p], 404)]
  /\ UNCHANGED <<storyChunk, comments, likes, nextId, listed, s3Deleted, nreq, failures, sess>>

\* prisma.storyChunk.update on a later chunk of an edit.
EsUpdateTracker(p) ==
  /\ req[p].pc = "es_updateTracker"
  /\ IF req[p].storyId \in DOMAIN storyChunk
       THEN /\ storyChunk' = [storyChunk EXCEPT ![req[p].storyId] =
                                Update(@, EditAppendTrackerData(The(req[p].chunkTracker), req[p].body))]
            /\ req' = [req EXCEPT ![p] = [Wrote(req[p], "storyChunk") EXCEPT !.pc = "es_updateStory"]]
       ELSE /\ storyChunk' = storyChunk
            /\ req' = [req EXCEPT ![p] = Respond(req[p], 404)]
  /\ UNCHANGED <<story, comments, likes, nextId, listed, s3Deleted, nreq, failures, sess>>

\* prisma.story.update on a later chunk of an edit.
EsUpdateStory(p) ==
  /\ req[p].pc = "es_updateStory"
  /\ IF req[p].storyId \in DOMAIN story
       THEN /\ story' = [story EXCEPT ![req[p].storyId] =
                           Update(@, EditAppendStoryData(The(req[p].chunkTracker), req[p].body))]
            /\ req' = [req EXCEPT ![p] = Respond(Wrote(req[p], "story"), 200)]
       ELSE /\ story' = story
            /\ req' = [req EXCEPT ![p] = Respond(req[p], 404)]
  /\ UNCHANGED <<storyChunk, comments, likes, nextId, listed, s3Deleted, nreq, failures, sess>>

(***************************************************************************)
(* deleteStory.                                                            *)
(***************************************************************************)
ReceiveDeleteOf(p, users, sids, limit) ==
  /\ Free(p)
  /\ nreq < limit
  /\ \E u \in users, sid \in sids :
       /\ req' = [req EXCEPT ![p] = Received("deleteStory", u, sid, NoBody, "ds_findStory")]
       /\ sess' = Spoil(sess, sid)
  /\ nreq' = nreq + 1
  /\ UNCHANGED <<story, storyChunk, comments, likes, nextId, listed, s3Deleted, failures>>

ReceiveDelete(p) ==
  Quiet(p) /\ ReceiveDeleteOf(p, Students, StoryIds, MaxRequests)

\* prisma.story.findUnique({id, studentId}).
DsFindStory(p) ==
  /\ req[p].pc = "ds_findStory"
  /\ LET found == FindOwnStory(story, req[p].storyId, req[p].user) IN
       req' = [req EXCEPT ![p] =
                 IF found = None THEN Respond(req[p], 404)
                 ELSE [req[p] EXCEPT !.pc = "ds_transaction", !.existingStory = found]]
  /\ UNCHANGED <<story, storyChunk, comments, likes, nextId, listed, s3Deleted, nreq, failures, sess>>

\* The urls deleteStory hands to deleteSingleObjectFromS3.
DeleteObjectsToDelete(row) ==
  (IF row.image # "" THEN {row.image} ELSE {}) \cup (IF row.audio # "" THEN {row.audio} ELSE {})

\* Mutant: the four deletions are sent one by one; the story's own deletion
\* may fail after the tracker is gone.
DsUnbatched(p) ==
  /\ req[p].pc = "ds_transaction"
  /\ LET sid == req[p].storyId IN
       /\ storyChunk' = Remove(storyChunk, sid)
       /\ \/ /\ sid \in DOMAIN story
             /\ comments' = [comments EXCEPT ![sid] = 0]
             /\ likes' = {l \in likes : l[1] # sid}
             /\ story' = Remove(story, sid)
             /\ req' = [req EXCEPT ![p] = Respond(Wrote(req[p], "transaction"), 200)]
          \/ /\ req' = [req EXCEPT ![p] = Respond(req[p], 500)]
             /\ UNCHANGED <<story, comments, likes>>
       /\ sess' = Remove(sess, sid)
  /\ UNCHANGED <<nextId, listed, nreq, failures, s3Deleted>>

\* prisma.$transaction: tracker, comments, likes and story go together; a
\* story that is gone by now fails story.delete and nothing is deleted.
\* (Reports, whose foreign key would refuse the delete, are not in the model:
\* no story is reported here.)
DsTransaction(p) ==
  /\ req[p].pc = "ds_transaction"
  /\ LET sid == req[p].storyId IN
       IF sid \in DOMAIN story
         THEN /\ storyChunk' = Remove(storyChunk, sid)
              /\ comments' = [comments EXCEPT ![sid] = 0]
              /\ likes' = {l \in likes : l[1] # sid}
              /\ story' = Remove(story, sid)
              /\ s3Deleted' = s3Deleted \cup DeleteObjectsToDelete(The(req[p].existingStory))
              /\ sess' = Remove(sess, sid)
              /\ req' = [req EXCEPT ![p] =
                           Respond(Deleted(Wrote(req[p], "transaction"),
                                           DeleteObjectsToDelete(The(req[p].existingStory))), 200)]
         ELSE /\ req' = [req EXCEPT ![p] = Respond(req[p], 500)]
              /\ UNCHANGED <<story, storyChunk, comments, likes, s3Deleted, sess>>
  /\ UNCHANGED <<nextId, listed, nreq, failures>>

(***************************************************************************)
(* The handlers that show and decorate stories.  Each is one read followed *)
(* by at most one write; requests are served one at a time, so each is one *)
(* step.  They are open to students, parents and therapists.               *)
(***************************************************************************)
Parents == {"pat"}
Therapists == {"tess"}
Users == Students \cup Parents \cup Therapists

PageSizeMax == 10

\* The ids of a table, most recent first (ids grow with createdAt).
RECURSIVE Newest(_)
Newest(ids) ==
  IF ids = {} THEN <<>>
  ELSE LET m == CHOOSE i \in ids : \A j \in ids : j <= i
       IN <<m>> \o Newest(ids \ {m})

\* where: filterConditions.  Stories the user reported or hid are left out;
\* no story is reported or hidden here, so every story passes.
PassesFilter(row, u) == TRUE

\* prisma.story.findMany({where, take, skip, orderBy}) for page 1, limit 10.
FindManyStories(st, u, page, limit) ==
  LET ids == Newest({i \in DOMAIN st : PassesFilter(st[i], u)})
      size == IF limit < PageSizeMax THEN limit ELSE PageSizeMax
      skip == ((IF page > 1 THEN page ELSE 1) - 1) * size
  IN {[id |-> ids[k], isComplete |-> st[ids[k]].isComplete] :
        k \in {k \in 1..Len(ids) : k > skip /\ k <= skip + size}}

GetStories ==
  /\ \A q \in Procs : Free(q)
  /\ nreq < MaxRequests
  /\ nreq' = nreq + 1
  /\ \E u \in Users : listed' = FindManyStories(story, u, 1, PageSizeMax)
  /\ UNCHANGED <<story, storyChunk, comments, likes, nextId, req, s3Deleted, failures, sess>>

\* prisma.story.findUnique({id}): what addComment and toggleStoryLike
\* require of the story.
FindStory(st, sid) == IF sid \in DOMAIN st THEN Some(st[sid]) ELSE None

AddCommentOf(users, sids, limit) ==
  /\ \A q \in DOMAIN req : Free(q)
  /\ nreq < limit
  /\ nreq' = nreq + 1
  /\ \E u \in users, sid \in sids :
       comments' = IF FindStory(story, sid) = None
                     THEN comments
                     ELSE [comments EXCEPT ![sid] = @ + 1]
  /\ UNCHANGED <<story, storyChunk, likes, nextId, req, listed, s3Deleted, failures, sess>>

AddComment == AddCommentOf(Users, StoryIds, MaxRequests)

ToggleStoryLikeOf(users, sids, limit) ==
  /\ \A q \in DOMAIN req : Free(q)
  /\ nreq < limit
  /\ nreq' = nreq + 1
  /\ \E u \in users, sid \in sids :
       likes' = IF FindStory(story, sid) = None
                  THEN likes
                  ELSE IF <<sid, u>> \in likes
                         THEN likes \ {<<sid, u>>}
                         ELSE likes \cup {<<sid, u>>}
  /\ UNCHANGED <<story, storyChunk, comments, nextId, req, listed, s3Deleted, failures, sess>>

ToggleStoryLike == ToggleStoryLikeOf(Users, StoryIds, MaxRequests)

(***************************************************************************)
(* A database write that fails for a reason outside the program (the       *)
(* connection, the server): the call throws, nothing is written, and the   *)
(* handler's catch answers 500.                                            *)
(***************************************************************************)
WritePcs ==
  {"cs_create", "cs_createFirst", "cs_createTracker", "cs_updateStory", "cs_updateTracker",
   "es_update", "es_writeTracker0", "es_updateStory0", "es_updateTracker", "es_updateStory",
   "ds_transaction"}

\* The story a request is about.
Target(r) == IF r.created # 0 THEN r.created ELSE r.storyId

\* Mutant: the catch undoes the story update of a chunk whose tracker update
\* failed.
WriteFailsRollingBack(p) ==
  /\ req[p].pc \in WritePcs
  /\ failures < MaxFailures
  /\ failures' = failures + 1
  /\ req' = [req EXCEPT ![p] = Respond(req[p], 500)]
  /\ sess' = Spoil(sess, Target(req[p]))
  /\ story' = IF req[p].pc = "cs_updateTracker" /\ req[p].storyId \in DOMAIN story
                THEN [story EXCEPT ![req[p].storyId] = The(req[p].existingStory)]
                ELSE story
  /\ UNCHANGED <<storyChunk, comments, likes, nextId, listed, s3Deleted, nreq>>

WriteFails(p) ==
  /\ req[p].pc \in WritePcs
  /\ failures < MaxFailures
  /\ failures' = failures + 1
  /\ req' = [req EXCEPT ![p] = Respond(req[p], 500)]
  /\ sess' = Spoil(sess, Target(req[p]))
  /\ UNCHANGED <<story, storyChunk, comments, likes, nextId, listed, s3Deleted, nreq>>

(***************************************************************************)
(* Request bodies clients send.                                            *)
(***************************************************************************)
PlainBodies == {[content |-> c] : c \in TextInputs}

ChunkBodies ==
  {[isChunk |-> TRUE, chunkIndex |-> i, totalChunks |-> t, content |-> c] :
     i \in 0..(MaxTotalChunks - 1), t \in 1..MaxTotalChunks, c \in Texts}

ChunkBodiesFor ==
  {[isChunk |-> TRUE, chunkIndex |-> i, totalChunks |-> t, content |-> c, storyId |-> s] :
     i \in 0..(MaxTotalChunks - 1), t \in 1..MaxTotalChunks, c \in Texts, s \in StoryIds}

\* Chunks the chunk schemas reject: the content is empty.
EmptyChunkBodies ==
  {[isChunk |-> TRUE, chunkIndex |-> i, totalChunks |-> MaxTotalChunks, content |-> ""] :
     i \in 0..1}

EmptyChunkBodiesFor ==
  {[isChunk |-> TRUE, chunkIndex |-> 1, totalChunks |-> MaxTotalChunks, content |-> "",
    storyId |-> s] : s \in StoryIds}

CreateBodies ==
  PlainBodies \cup ChunkBodies \cup ChunkBodiesFor \cup EmptyChunkBodies \cup EmptyChunkBodiesFor
EditBodies == PlainBodies \cup ChunkBodies \cup EmptyChunkBodies

(***************************************************************************)
(* The system: requests served one at a time.                              *)
(***************************************************************************)
Init ==
  /\ story = <<>>
  /\ storyChunk = <<>>
  /\ comments = [i \in StoryIds |-> 0]
  /\ likes = {}
  /\ nextId = 1
  /\ req = [p \in Procs |-> Idle]
  /\ listed = {}
  /\ s3Deleted = {}
  /\ nreq = 0
  /\ failures = 0
  /\ sess = <<>>

Next ==
  \E p \in Procs :
    \/ ReceiveCreate(p, CreateBodies)
    \/ CsCreate(p)
    \/ CsCreateFirst(p)
    \/ CsCreateTracker(p)
    \/ CsFindStory(p)
    \/ CsFindTracker(p)
    \/ CsUpdateStory(p)
    \/ CsUpdateTracker(p)
    \/ ReceiveEdit(p, EditBodies)
    \/ EsFindStory(p)
    \/ EsUpdate(p)
    \/ EsFindTracker0(p)
    \/ EsWriteTracker0(p)
    \/ EsUpdateStory0(p)
    \/ EsFindTracker(p)
    \/ EsUpdateTracker(p)
    \/ EsUpdateStory(p)
    \/ ReceiveDelete(p)
    \/ DsFindStory(p)
    \/ DsTransaction(p)
    \/ WriteFails(p)

Spec == Init /\ [][Next]_vars

\* The same, with the handlers that show and decorate stories.
NextSocial ==
  \/ Next
  \/ GetStories
  \/ AddComment
  \/ ToggleStoryLike

SpecSocial == Init /\ [][NextSocial]_vars

(***************************************************************************)
(* One author working on one story, requests served one at a time: the     *)
(* story is created (whole, or by chunk 0), then chunks are sent to it on  *)
(* the create path and edits, whole or chunked, on the edit path.          *)
(***************************************************************************)
Owner == "ann"
OwnerStory == CHOOSE i \in StoryIds : \A j \in StoryIds : i <= j

OwnerChunkBodies ==
  {[isChunk |-> TRUE, chunkIndex |-> i, totalChunks |-> t, content |-> c, storyId |-> OwnerStory] :
     i \in 1..(MaxTotalChunks - 1), t \in 1..MaxTotalChunks, c \in Texts}

OwnerFirstBodies ==
  {[content |-> c] : c \in Texts}
    \cup {[isChunk |-> TRUE, chunkIndex |-> 0, totalChunks |-> t, content |-> c] :
            t \in 1..MaxTotalChunks, c \in Texts}

OwnerEditBodies ==
  {[content |-> c] : c \in Texts}
    \cup {[isChunk |-> TRUE, chunkIndex |-> i, totalChunks |-> t, content |-> c] :
            i \in 0..(MaxTotalChunks - 1), t \in 1..MaxTotalChunks, c \in Texts}

OwnerCreates(p) ==
  /\ Quiet(p)
  /\ ReceiveCreateOf(p, {Owner}, IF nextId = OwnerStory THEN OwnerFirstBodies ELSE OwnerChunkBodies,
                     MaxOwnerRequests)

OwnerEdits(p) ==
  /\ Quiet(p)
  /\ OwnerStory \in DOMAIN story
  /\ ReceiveEditOf(p, {Owner}, {OwnerStory}, OwnerEditBodies, MaxOwnerRequests)

NextOwner ==
  \E p \in Procs :
    \/ OwnerCreates(p)
    \/ CsCreate(p)
    \/ CsCreateFirst(p)
    \/ CsCreateTracker(p)
    \/ CsFindStory(p)
    \/ CsFindTracker(p)
    \/ CsUpdateStory(p)
    \/ CsUpdateTracker(p)
    \/ OwnerEdits(p)
    \/ EsFindStory(p)
    \/ EsUpdate(p)
    \/ EsFindTracker0(p)
    \/ EsWriteTracker0(p)
    \/ EsUpdateStory0(p)
    \/ EsFindTracker(p)
    \/ EsUpdateTracker(p)
    \/ EsUpdateStory(p)
    \/ WriteFails(p)

SpecOwner == Init /\ [][NextOwner]_vars

(***************************************************************************)
(* A story with a tracker is created by its author, commented and liked,   *)
(* and deleted; the deletion may fail.                                     *)
(***************************************************************************)
DeleteFirstBodies ==
  {[isChunk |-> TRUE, chunkIndex |-> 0, totalChunks |-> MaxTotalChunks, content |-> c] :
     c \in Texts}

DeleteCreates(p) ==
  /\ Quiet(p)
  /\ ReceiveCreateOf(p, {Owner}, DeleteFirstBodies, MaxDeleteRequests)

DeleteComments == AddCommentOf(Parents, {OwnerStory}, MaxDeleteRequests)

DeleteLikes == ToggleStoryLikeOf(Therapists, {OwnerStory}, MaxDeleteRequests)

DeleteDeletes(p) ==
  /\ Quiet(p)
  /\ ReceiveDeleteOf(p, Students, StoryIds, MaxDeleteRequests)

NextDelete ==
  \/ DeleteComments
  \/ DeleteLikes
  \/ \E p \in Procs :
       \/ DeleteCreates(p)
       \/ CsCreateFirst(p)
       \/ CsCreateTracker(p)
       \/ DeleteDeletes(p)
       \/ DsFindStory(p)
       \/ DsTransaction(p)
       \/ WriteFails(p)

SpecDelete == Init /\ [][NextDelete]_vars

(***************************************************************************)
(* Non-chunked creations whose content and title sit on both sides of the  *)
(* schema's limits.                                                        *)
(***************************************************************************)
\* A text of n characters.
RECURSIVE Chars(_)
Chars(n) ==
  IF n = 0 THEN ""
  ELSE IF n % 2 = 0 THEN Chars(n \div 2) \o Chars(n \div 2)
  ELSE "x" \o Chars(n - 1)

LongContents == {Chars(n) : n \in {0, 1, ContentMax, ContentMax + 1}}
LongTitles == {Chars(n) : n \in {0, TitleMin - 1, TitleMin, TitleMax, TitleMax + 1}}

PlainLongBodies ==
  {[content |-> c] : c \in LongContents}
    \cup {[content |-> c, title |-> t] : c \in LongContents, t \in LongTitles}
    \cup {[title |-> t] : t \in LongTitles}
    \cup {[isChunk |-> FALSE, content |-> c] : c \in LongContents}

PlainCreates(p) ==
  /\ Quiet(p)
  /\ ReceiveCreateOf(p, {Owner}, PlainLongBodies, MaxPlainRequests)

NextPlain ==
  \E p \in Procs :
    \/ PlainCreates(p)
    \/ CsCreate(p)
    \/ WriteFails(p)

SpecPlain == Init /\ [][NextPlain]_vars

(***************************************************************************)
(* Chunks of one story served concurrently: the server has two requests    *)
(* in flight, and their awaited calls interleave in any order.  The        *)
(* author sends chunk 0 alone (its answer carries the story's id), then    *)
(* later chunks, on either path, without waiting for the answers.          *)
(***************************************************************************)
RaceProcs == {"r1", "r2"}

RaceFirstBody ==
  [isChunk |-> TRUE, chunkIndex |-> 0, totalChunks |-> MaxTotalChunks + 1, content |-> "x"]

RaceChunkBodies ==
  {[isChunk |-> TRUE, chunkIndex |-> i, totalChunks |-> MaxTotalChunks + 1, content |-> c,
    storyId |-> OwnerStory] : i \in 1..MaxTotalChunks, c \in Texts}

RaceFirst(p) ==
  /\ Quiet(p)
  /\ nextId = OwnerStory
  /\ ReceiveCreateOf(p, {Owner}, {RaceFirstBody}, MaxRaceRequests)

RaceCreates(p) ==
  /\ OwnerStory \in DOMAIN storyChunk
  /\ ReceiveCreateOf(p, {Owner}, RaceChunkBodies, MaxRaceRequests)

RaceEdits(p) ==
  /\ OwnerStory \in DOMAIN storyChunk
  /\ ReceiveEditOf(p, {Owner}, {OwnerStory}, RaceChunkBodies, MaxRaceRequests)

InitRace ==
  /\ story = <<>>
  /\ storyChunk = <<>>
  /\ comments = [i \in StoryIds |-> 0]
  /\ likes = {}
  /\ nextId = 1
  /\ req = [p \in RaceProcs |-> Idle]
  /\ listed = {}
  /\ s3Deleted = {}
  /\ nreq = 0
  /\ failures = 0
  /\ sess = <<>>

NextRace ==
  \E p \in RaceProcs :
    \/ RaceFirst(p)
    \/ CsCreateFirst(p)
    \/ CsCreateTracker(p)
    \/ RaceCreates(p)
    \/ CsFindStory(p)
    \/ CsFindTracker(p)
    \/ CsUpdateStory(p)
    \/ CsUpdateTracker(p)
    \/ RaceEdits(p)
    \/ EsFindStory(p)
    \/ EsFindTracker(p)
    \/ EsUpdateTracker(p)
    \/ EsUpdateStory(p)

SpecRace == InitRace /\ [][NextRace]_vars

(***************************************************************************)
(* Properties.  A finished request keeps its body, its locals and its      *)
(* status in its slot until the next request is received, so "after the    *)
(* request" is the state in which its slot is done.                        *)
(***************************************************************************)
Done(p) == req[p].pc = "done"
Accepted(p) == Done(p) /\ req[p].status \in {200, 201}

\* The slot p took this step.
Stepped(p) == req'[p] # req[p]

\* A chunk submission of handler o.
ChunkOf(r, o) == r.op = o /\ IsChunk(r.body)

\* C1: chunks 0..totalChunks-1 submitted to createStory serially, in index
\* order, each later one naming the story of chunk 0, every write succeeding
\* and nothing else naming the story, leave the story's content equal to the
\* concatenation of the chunk contents in submission order.
C1_InOrderChunksConcatenate ==
  \A sid \in DOMAIN sess :
    (sess[sid].clean /\ sess[sid].next = sess[sid].total)
      => (sid \in DOMAIN story /\ story[sid].content = sess[sid].acc)

C1_Witness ==
  \E sid \in DOMAIN sess :
    /\ sess[sid].clean /\ sess[sid].next = sess[sid].total /\ sess[sid].total >= 2
    /\ \E p \in Procs : Accepted(p) /\ ChunkOf(req[p], "createStory") /\ req[p].storyId = sid

\* C2: after chunk 0 of a new story is accepted, chunksReceived is 1 and the
\* isComplete flag of the story and of its tracker equals (totalChunks = 1).
C2_FirstChunkCompleteIffSingle ==
  \A p \in Procs :
    (Accepted(p) /\ ChunkOf(req[p], "createStory") /\ ChunkIndex(req[p].body) = 0)
      => /\ req[p].created \in DOMAIN story
         /\ req[p].created \in DOMAIN storyChunk
         /\ storyChunk[req[p].created].receivedChunks = 1
         /\ story[req[p].created].isComplete = (TotalChunks(req[p].body) = 1)
         /\ storyChunk[req[p].created].isComplete = (TotalChunks(req[p].body) = 1)

\* C3: every accepted chunk whose chunkIndex is totalChunks - 1, on the create
\* path or the edit path, leaves isComplete true on the story and its tracker.
C3_FinalIndexCompletes ==
  \A p \in Procs :
    (/\ Accepted(p)
     /\ (ChunkOf(req[p], "createStory") \/ ChunkOf(req[p], "editStory"))
     /\ IsFinalChunk(req[p].body))
      => /\ Target(req[p]) \in DOMAIN story
         /\ story[Target(req[p])].isComplete
         /\ Target(req[p]) \in DOMAIN storyChunk
         /\ storyChunk[Target(req[p])].isComplete

\* What a step of a non-chunked createStory may do: no tracker read or
\* written; the story table written only by the step that answers 201, which
\* adds one complete story without a tracker and changes no other story.
C4_PlainCreateStep(p) ==
  /\ storyChunk' = storyChunk
  /\ req'[p].chunkTracker = None
  /\ IF req'[p].status = 201
       THEN /\ req'[p].created \notin DOMAIN story
            /\ DOMAIN story' = DOMAIN story \cup {req'[p].created}
            /\ \A i \in DOMAIN story : story'[i] = story[i]
            /\ story'[req'[p].created].isComplete
            /\ req'[p].created \notin DOMAIN storyChunk'
       ELSE story' = story

\* C4: a non-chunked createStory that passes validation creates exactly one
\* story, whose isComplete is true, creates no tracker for it, and neither
\* reads nor writes any tracker.
C4_PlainCreateBypassesTracker ==
  [][\A p \in Procs :
       (Stepped(p) /\ req'[p].op = "createStory" /\ ~IsChunk(req'[p].body))
         => C4_PlainCreateStep(p)]_vars

C4_Witness ==
  \E p \in Procs :
    /\ Accepted(p) /\ req[p].op = "createStory" /\ ~IsChunk(req[p].body)
    /\ req[p].created \in DOMAIN story
    /\ story[req[p].created].isComplete
    /\ req[p].created \notin DOMAIN storyChunk

\* C5: a story with isComplete false is never returned by getStories and
\* never gains a comment or a like.
C5_DraftsAreNotPublic ==
  [][/\ \A row \in listed' : row \in listed \/ row.isComplete
     /\ \A sid \in DOMAIN story :
          ~story[sid].isComplete
            => /\ comments'[sid] <= comments[sid]
               /\ {l \in likes' : l[1] = sid} \subseteq likes]_vars

\* The story named by a chunk submission exists and is another author's.
NamesForeignStory(r) ==
  /\ r.storyId \in DOMAIN story
  /\ story[r.storyId].studentId # r.user

\* C6 as stated: every chunk submission naming another author's story fails
\* with NotFound/Forbidden, on createStory and editStory, at every chunkIndex.
C6_ForeignChunkFails ==
  \A p \in Procs :
    (/\ Done(p)
     /\ (ChunkOf(req[p], "createStory") \/ ChunkOf(req[p], "editStory"))
     /\ NamesForeignStory(req[p]))
      => req[p].status \in {403, 404}

\* C6 amended: a chunk submission naming another author's story fails, with
\* 404 when its body passes the schema (400 otherwise), on editStory at every
\* chunkIndex and on createStory at every chunkIndex > 0.
C6_ForeignChunkFailsAmended ==
  \A p \in Procs :
    (/\ Done(p)
     /\ (\/ ChunkOf(req[p], "editStory")
         \/ (ChunkOf(req[p], "createStory") /\ ChunkIndex(req[p].body) > 0))
     /\ NamesForeignStory(req[p]))
      => req[p].status = (IF Len(req[p].body.content) >= 1 THEN 404 ELSE 400)

C6_Witness ==
  \E p \in Procs :
    /\ Done(p) /\ ChunkOf(req[p], "createStory") /\ ChunkIndex(req[p].body) > 0
    /\ NamesForeignStory(req[p])
    /\ ~story[req[p].storyId].isComplete
    /\ req[p].status = 404

\* C7: a request of author A never changes or deletes the story row or the
\* tracker row of a story owned by another author.
C7_OnlyTheOwnerMutates ==
  [][\A p \in Procs :
       Stepped(p) =>
         \A sid \in DOMAIN story :
           story[sid].studentId # req'[p].user
             => /\ sid \in DOMAIN story'
                /\ story'[sid] = story[sid]
                /\ (sid \in DOMAIN storyChunk') = (sid \in DOMAIN storyChunk)
                /\ sid \in DOMAIN storyChunk => storyChunk'[sid] = storyChunk[sid]]_vars

C7_Witness ==
  \E p \in Procs :
    /\ Done(p) /\ req[p].op \in {"editStory", "deleteStory"}
    /\ NamesForeignStory(req[p])
    /\ req[p].storyId \in DOMAIN storyChunk
    /\ req[p].status = 404

\* C8: a chunk with chunkIndex > 0 for a storyId that has no tracker changes
\* no story, creates no tracker, and is answered 404, on both paths.
C8_MissingTrackerIsNotFound ==
  [][\A p \in Procs :
       (/\ Stepped(p)
        /\ (ChunkOf(req'[p], "createStory") \/ ChunkOf(req'[p], "editStory"))
        /\ ChunkIndex(req'[p].body) > 0
        /\ Len(req'[p].body.content) >= 1
        /\ req'[p].storyId # 0
        /\ req'[p].storyId \notin DOMAIN storyChunk)
         => /\ story' = story
            /\ storyChunk' = storyChunk
            /\ req'[p].pc = "done" => req'[p].status = 404]_vars

C8_Witness ==
  \E p \in Procs :
    /\ Done(p) /\ ChunkOf(req[p], "createStory") /\ ChunkIndex(req[p].body) > 0
    /\ req[p].existingStory # None
    /\ req[p].chunkTracker = None
    /\ req[p].storyId \notin DOMAIN storyChunk
    /\ req[p].status = 404

\* C9: chunk 0 of an edit of an owned story that has a tracker resets the
\* tracker: its content is exactly the chunk's, receivedChunks is 1,
\* isComplete is (totalChunks = 1), and the story's content is the chunk's.
C9_EditRestartResetsTracker ==
  \A p \in Procs :
    (/\ Accepted(p) /\ ChunkOf(req[p], "editStory") /\ ChunkIndex(req[p].body) = 0
     /\ req[p].chunkTracker # None)
      => /\ req[p].storyId \in DOMAIN storyChunk
         /\ storyChunk[req[p].storyId].content = req[p].body.content
         /\ storyChunk[req[p].storyId].receivedChunks = 1
         /\ storyChunk[req[p].storyId].isComplete = (TotalChunks(req[p].body) = 1)
         /\ req[p].storyId \in DOMAIN story
         /\ story[req[p].storyId].content = req[p].body.content

C9_Witness ==
  \E p \in Procs :
    /\ Accepted(p) /\ ChunkOf(req[p], "editStory") /\ ChunkIndex(req[p].body) = 0
    /\ req[p].chunkTracker # None
    /\ The(req[p].chunkTracker).content # req[p].body.content
    /\ The(req[p].existingStory).content # req[p].body.content

\* C10: chunk 0 of an edit with totalChunks = 1 leaves the story with the
\* submitted content and complete, and a tracker with the submitted content,
\* receivedChunks 1 and complete, whether or not a tracker existed.
C10_SingleChunkEditCompletes ==
  \A p \in Procs :
    (/\ Accepted(p) /\ ChunkOf(req[p], "editStory") /\ ChunkIndex(req[p].body) = 0
     /\ TotalChunks(req[p].body) = 1)
      => /\ req[p].storyId \in DOMAIN story
         /\ story[req[p].storyId].content = req[p].body.content
         /\ story[req[p].storyId].isComplete
         /\ req[p].storyId \in DOMAIN storyChunk
         /\ storyChunk[req[p].storyId].content = req[p].body.content
         /\ storyChunk[req[p].storyId].receivedChunks = 1
         /\ storyChunk[req[p].storyId].isComplete

C10_Witness ==
  \E p \in Procs :
    /\ Accepted(p) /\ ChunkOf(req[p], "editStory") /\ ChunkIndex(req[p].body) = 0
    /\ TotalChunks(req[p].body) = 1
    /\ req[p].chunkTracker = None
    /\ The(req[p].existingStory).content # req[p].body.content
    /\ story[req[p].storyId].isComplete

\* The slot p completed a write to table t in this step.
WroteNow(p, t) ==
  /\ Len(req'[p].writes) = Len(req[p].writes) + 1
  /\ req'[p].writes[Len(req'[p].writes)] = t

\* C11: a tracker's isComplete is true exactly when a chunk whose index is
\* totalChunks - 1 has been applied since the most recent chunk 0 of the
\* story: a chunk 0 leaves it equal to (0 = totalChunks - 1), and a later
\* chunk leaves it true when it was true or the chunk has the final index,
\* false otherwise.
C11_TrackerCompleteIffFinalApplied ==
  [][\A p \in Procs :
       (WroteNow(p, "storyChunk") /\ Target(req'[p]) \in DOMAIN storyChunk')
         => storyChunk'[Target(req'[p])].isComplete
              = IF ChunkIndex(req'[p].body) = 0
                  THEN IsFinalChunk(req'[p].body)
                  ELSE (storyChunk[Target(req'[p])].isComplete \/ IsFinalChunk(req'[p].body))]_vars

\* C12: once a story's isComplete is true it stays true in every later state
\* in which the story exists, whatever createStory and editStory requests
\* follow.
C12_CompleteStaysComplete ==
  [][\A sid \in DOMAIN story :
       (story[sid].isComplete /\ sid \in DOMAIN story') => story'[sid].isComplete]_vars

\* C13: a createStory chunk with chunkIndex > 0 that names a story whose
\* isComplete is already true changes neither the story nor its tracker and
\* is answered 404 by the story lookup.
C13_CompletedStoryRefusesChunk ==
  [][\A p \in Procs :
       (/\ Stepped(p)
        /\ ChunkOf(req'[p], "createStory")
        /\ ChunkIndex(req'[p].body) > 0
        /\ Len(req'[p].body.content) >= 1
        /\ req[p].pc \in {"idle", "done", "cs_findStory"}
        /\ req'[p].storyId \in DOMAIN story
        /\ story[req'[p].storyId].isComplete)
         => /\ story' = story
            /\ storyChunk' = storyChunk
            /\ req'[p].pc \in {"cs_findStory", "done"}
            /\ req'[p].pc = "done" => req'[p].status = 404]_vars

C13_Witness ==
  \E p \in Procs :
    /\ Done(p) /\ ChunkOf(req[p], "createStory") /\ ChunkIndex(req[p].body) > 0
    /\ req[p].status = 404
    /\ req[p].storyId \in DOMAIN story
    /\ story[req[p].storyId].studentId = req[p].user
    /\ story[req[p].storyId].isComplete
    /\ req[p].storyId \in DOMAIN storyChunk
    /\ storyChunk[req[p].storyId].isComplete

\* The tracker row new has fewer received chunks or a shorter content than old.
Lowered(old, new) ==
  \/ new.receivedChunks < old.receivedChunks
  \/ Len(new.content) < Len(old.content)

\* A step lowers the tracker of a story only as part of a chunk 0 for it.
OnlyChunkZeroLowers ==
  \A sid \in (DOMAIN storyChunk) \cap (DOMAIN storyChunk') :
    Lowered(storyChunk[sid], storyChunk'[sid])
      => \E p \in Procs :
           /\ Stepped(p) /\ IsChunk(req'[p].body) /\ ChunkIndex(req'[p].body) = 0
           /\ Target(req'[p]) = sid

\* A chunk 0 that was not accepted has not lowered the tracker it found.
RefusedChunkZeroLowersNothing(r) ==
  (/\ r.pc = "done" /\ r.status \notin {200, 201}
   /\ IsChunk(r.body) /\ ChunkIndex(r.body) = 0
   /\ r.chunkTracker # None
   /\ r.storyId \in DOMAIN storyChunk')
    => ~Lowered(The(r.chunkTracker), storyChunk'[r.storyId])

\* C14 as stated: between one accepted chunk 0 of a story and the next, the
\* tracker's receivedChunks and the length of its content never decrease.
C14_SessionMonotone ==
  [][/\ OnlyChunkZeroLowers
     /\ \A p \in Procs : RefusedChunkZeroLowersNothing(req'[p])]_vars

\* C14 amended: the tracker's receivedChunks and the length of its content
\* decrease only at the tracker write of a chunk 0, accepted or not.
C14_OnlyChunkZeroLowersTracker == [][OnlyChunkZeroLowers]_vars

C14_Witness ==
  \E p \in Procs :
    /\ Done(p) /\ req[p].status = 500
    /\ ChunkOf(req[p], "editStory") /\ ChunkIndex(req[p].body) = 0
    /\ req[p].chunkTracker # None
    /\ The(req[p].chunkTracker).receivedChunks >= 2
    /\ req[p].storyId \in DOMAIN storyChunk
    /\ storyChunk[req[p].storyId].receivedChunks = 1
    /\ Len(storyChunk[req[p].storyId].content) < Len(The(req[p].chunkTracker).content)

\* What a step of a deleteStory request may do: nothing to the four tables,
\* or, answering 200, remove the caller's story together with its tracker,
\* its comments and its likes, and nothing of any other story.
C15_DeleteStep(p) ==
  LET sid == req'[p].storyId IN
    \/ /\ story' = story /\ storyChunk' = storyChunk
       /\ comments' = comments /\ likes' = likes
       /\ req'[p].status # 200
    \/ /\ req'[p].status = 200
       /\ sid \in DOMAIN story /\ story[sid].studentId = req'[p].user
       /\ story' = Remove(story, sid)
       /\ storyChunk' = Remove(storyChunk, sid)
       /\ comments' = [comments EXCEPT ![sid] = 0]
       /\ likes' = {l \in likes : l[1] # sid}

\* C15: a successful deleteStory by the owner removes the story, its tracker,
\* its comments and its likes in one step; a deleteStory that fails removes
\* none of them; and no state holds a tracker whose story is gone.
C15_DeleteIsAtomic ==
  [][/\ \A p \in Procs : (Stepped(p) /\ req'[p].op = "deleteStory") => C15_DeleteStep(p)
     /\ DOMAIN storyChunk' \subseteq DOMAIN story']_vars

C15_Witness ==
  \E p \in Procs :
    /\ Done(p) /\ req[p].op = "deleteStory" /\ req[p].status = 200
    /\ req[p].existingStory # None
    /\ req[p].storyId \notin DOMAIN story
    /\ req[p].storyId \notin DOMAIN storyChunk
    /\ comments[req[p].storyId] = 0
    /\ {l \in likes : l[1] = req[p].storyId} = {}
    /\ nreq = MaxDeleteRequests

\* The inputs C16 names: content of 1..2500 characters, title absent or of
\* 2..100 characters.
C16_ContentFits(b) == Has(b, "content") /\ Len(b.content) >= 1 /\ Len(b.content) <= 2500
C16_TitleFits(b) == Has(b, "title") => (Len(b.title) >= 2 /\ Len(b.title) <= 100)

\* C16: a non-chunked createStory whose content has 1..2500 characters and
\* whose title is absent or has 2..100 characters passes validation (it is
\* answered 201 unless the database fails); every other one is answered 400
\* on receipt, with one message per offending field, before any write, and
\* creates no story and no tracker.
C16_PlainCreateValidated ==
  [][\A p \in Procs :
       (Stepped(p) /\ req'[p].op = "createStory" /\ ~IsChunk(req'[p].body))
         => IF C16_ContentFits(req'[p].body) /\ C16_TitleFits(req'[p].body)
              THEN /\ req'[p].errors = <<>>
                   /\ req'[p].pc = "done" => req'[p].status \in {201, 500}
              ELSE /\ req'[p].pc = "done" /\ req'[p].status = 400
                   /\ Len(req'[p].errors)
                        = (IF C16_ContentFits(req'[p].body) THEN 0 ELSE 1)
                            + (IF C16_TitleFits(req'[p].body) THEN 0 ELSE 1)
                   /\ req'[p].writes = <<>> /\ req'[p].created = 0
                   /\ story' = story /\ storyChunk' = storyChunk]_vars

C16_Witness ==
  \E p \in Procs :
    /\ Done(p) /\ req[p].op = "createStory" /\ ~IsChunk(req[p].body)
    /\ Has(req[p].body, "content") /\ Len(req[p].body.content) = 2501
    /\ Has(req[p].body, "title") /\ Len(req[p].body.title) = 101
    /\ req[p].status = 400
    /\ req[p].errors = <<"Story content cannot exceed 2500 characters",
                          "Title cannot exceed 100 characters">>
    /\ \E sid \in DOMAIN story : Len(story[sid].content) = 2500 /\ story[sid].isComplete

\* An accepted chunk with chunkIndex > 0, on either path.
AcceptedLaterChunk(r) ==
  /\ r.pc = "done" /\ r.status = 200
  /\ IsChunk(r.body) /\ ChunkIndex(r.body) > 0
  /\ r.chunkTracker # None

\* C17: when two chunks with chunkIndex > 0 for the same story have both
\* been accepted after reading the same tracker row (their reads and writes
\* interleaved), one update is lost: receivedChunks has grown by 1, and the
\* tracker's content is the row read followed by one of the two chunks.
C17_InterleavedChunksLoseOne ==
  \A p, q \in RaceProcs :
    (/\ p # q
     /\ AcceptedLaterChunk(req[p]) /\ AcceptedLaterChunk(req[q])
     /\ req[p].storyId = req[q].storyId
     /\ req[p].chunkTracker = req[q].chunkTracker
     /\ req[p].storyId \in DOMAIN storyChunk)
      => LET read == The(req[p].chunkTracker)
             now == storyChunk[req[p].storyId]
         IN /\ now.receivedChunks = read.receivedChunks + 1
            /\ now.content \in {read.content \o req[p].body.content,
                                 read.content \o req[q].body.content}

C17_Witness ==
  \E p, q \in RaceProcs :
    /\ p # q
    /\ AcceptedLaterChunk(req[p]) /\ AcceptedLaterChunk(req[q])
    /\ req[p].op = "createStory" /\ req[q].op = "createStory"
    /\ req[p].storyId = req[q].storyId
    /\ req[p].body.content # req[q].body.content
    /\ req[p].storyId \in DOMAIN storyChunk
    /\ storyChunk[req[p].storyId].receivedChunks = 2
    /\ storyChunk[req[p].storyId].content = RaceFirstBody.content \o req[q].body.content
    /\ story[req[p].storyId].content = RaceFirstBody.content \o req[q].body.content

\* C18: when, in a createStory chunk with chunkIndex > 0, the story update
\* has succeeded and the tracker update fails, the request is answered 500,
\* the story keeps the appended content (and isComplete true if the chunk had
\* the final index), the tracker keeps the row that was read, and the two
\* contents, if they agreed before, now differ.
C18_NoRollback ==
  [][\A p \in Procs :
       (req[p].pc = "cs_updateTracker" /\ req'[p].pc = "done" /\ req'[p].status # 200)
         => LET sid == req[p].storyId
                b == req[p].body
                old == The(req[p].existingStory)
                read == The(req[p].chunkTracker)
            IN /\ req'[p].status = 500
               /\ sid \in DOMAIN story' /\ sid \in DOMAIN storyChunk'
               /\ story'[sid].content = old.content \o b.content
               /\ IsFinalChunk(b) => story'[sid].isComplete
               /\ storyChunk'[sid] = read
               /\ old.content = read.content
                    => story'[sid].content # storyChunk'[sid].content]_vars

C18_Witness ==
  \E p \in Procs :
    /\ Done(p) /\ req[p].status = 500
    /\ ChunkOf(req[p], "createStory") /\ ChunkIndex(req[p].body) > 0
    /\ req[p].writes = <<"story">>
    /\ IsFinalChunk(req[p].body)
    /\ story[req[p].storyId].isComplete
    /\ ~storyChunk[req[p].storyId].isComplete
    /\ storyChunk[req[p].storyId].receivedChunks = 1
    /\ story[req[p].storyId].content
         = storyChunk[req[p].storyId].content \o req[p].body.content

\* s is an initial part of t.
IsPrefix(s, t) == Len(s) <= Len(t) /\ \A i \in 1..Len(s) : s[i] = t[i]

\* A chunk request of createStory or editStory.
ChunkRequest(r) == ChunkOf(r, "createStory") \/ ChunkOf(r, "editStory")

\* C19 as stated: in every chunk-handling branch, on both paths, the story is
\* written before the tracker.
C19_StoryBeforeTracker ==
  \A p \in Procs :
    ChunkRequest(req[p]) => IsPrefix(req[p].writes, <<"story", "storyChunk">>)

\* C19 amended: a createStory chunk writes the story and then the tracker; an
\* editStory chunk writes the tracker and then the story.
C19_StoryFirstOnCreateTrackerFirstOnEdit ==
  \A p \in Procs :
    /\ ChunkOf(req[p], "createStory") => IsPrefix(req[p].writes, <<"story", "storyChunk">>)
    /\ ChunkOf(req[p], "editStory") => IsPrefix(req[p].writes, <<"storyChunk", "story">>)

C19_Witness ==
  \E p \in Procs :
    /\ Accepted(p) /\ ChunkOf(req[p], "editStory") /\ ChunkIndex(req[p].body) > 0
    /\ req[p].writes = <<"storyChunk", "story">>

\* C20: an accepted editStory chunk with chunkIndex > 0 leaves the tracker's
\* content equal to its previous content followed by the chunk, and the
\* story's content equal to the story's previous content followed by the
\* chunk, also when the two contents differed before the request.
C20_EditChunkAppendsToBoth ==
  \A p \in Procs :
    (Accepted(p) /\ ChunkOf(req[p], "editStory") /\ ChunkIndex(req[p].body) > 0)
      => /\ req[p].storyId \in DOMAIN storyChunk
         /\ storyChunk[req[p].storyId].content
              = The(req[p].chunkTracker).content \o req[p].body.content
         /\ req[p].storyId \in DOMAIN story
         /\ story[req[p].storyId].content
              = The(req[p].existingStory).content \o req[p].body.content

(***************************************************************************)
(* The tracker as a mirror of the story.                                   *)
(***************************************************************************)
\* No request is in flight.
Settled == \A p \in DOMAIN req : Free(p)

\* The tracker of story sid and the story hold the same content.
SameContent(sid) ==
  sid \in DOMAIN story /\ sid \in DOMAIN storyChunk
    /\ storyChunk[sid].content = story[sid].content

\* C21: in a serial execution in which every write succeeds,
\* whenever a story has a tracker after a request has completed, the
\* tracker's content equals the story's content.
C21_TrackerMirrorsStory ==
  (Settled /\ failures = 0) => \A sid \in DOMAIN storyChunk : SameContent(sid)

\* C22: the tracker's chunkIndex is the index of the chunk most recently
\* applied to its story: 0 after chunk 0, k after an accepted chunk with
\* chunkIndex = k.
C22_TrackerIndexIsLastApplied ==
  \A p \in Procs :
    (Accepted(p) /\ ChunkRequest(req[p]) /\ Target(req[p]) \in DOMAIN storyChunk)
      => storyChunk[Target(req[p])].chunkIndex = ChunkIndex(req[p].body)

(***************************************************************************)
(* One author uploads a story of MaxTotalChunks + 1 chunks and, after      *)
(* chunk 0, submits and resubmits middle chunks (non-zero, non-final       *)
(* index) on the create and on the edit path, with and without values for  *)
(* the metadata columns.                                                   *)
(***************************************************************************)
MiddleTotal == MaxTotalChunks + 1

MiddleFirstBody ==
  [isChunk |-> TRUE, chunkIndex |-> 0, totalChunks |-> MiddleTotal, content |-> "x",
   title |-> "first", image |-> "old.png"]

MiddleMedia ==
  [title |-> "retitled", image |-> "new.png", audio |-> "new.mp3", audioDuration |-> 7]

MiddleChunks ==
  {[isChunk |-> TRUE, chunkIndex |-> i, totalChunks |-> MiddleTotal, content |-> c] :
     i \in 1..(MiddleTotal - 2), c \in Texts}

MiddleEditBodies == MiddleChunks \cup {b @@ MiddleMedia : b \in MiddleChunks}

MiddleCreateBodies == {b @@ [storyId |-> OwnerStory] : b \in MiddleEditBodies}

MiddleFirst(p) ==
  /\ Quiet(p)
  /\ nextId = OwnerStory
  /\ ReceiveCreateOf(p, {Owner}, {MiddleFirstBody}, MaxMiddleRequests)

MiddleCreates(p) ==
  /\ Quiet(p)
  /\ OwnerStory \in DOMAIN storyChunk
  /\ ReceiveCreateOf(p, {Owner}, MiddleCreateBodies, MaxMiddleRequests)

MiddleEdits(p) ==
  /\ Quiet(p)
  /\ OwnerStory \in DOMAIN storyChunk
  /\ ReceiveEditOf(p, {Owner}, {OwnerStory}, MiddleEditBodies, MaxMiddleRequests)

NextMiddle ==
  \E p \in Procs :
    \/ MiddleFirst(p)
    \/ CsCreateFirst(p)
    \/ CsCreateTracker(p)
    \/ MiddleCreates(p)
    \/ CsFindStory(p)
    \/ CsFindTracker(p)
    \/ CsUpdateStory(p)
    \/ CsUpdateTracker(p)
    \/ MiddleEdits(p)
    \/ EsFindStory(p)
    \/ EsFindTracker(p)
    \/ EsUpdateTracker(p)
    \/ EsUpdateStory(p)

SpecMiddle == Init /\ [][NextMiddle]_vars

\* A chunk request with a non-zero, non-final index that found the story and
\* its tracker (the upload session is open) and has been answered.
AnsweredMiddleChunk(r) ==
  /\ r.pc = "done" /\ ChunkRequest(r)
  /\ ChunkIndex(r.body) > 0 /\ ~IsFinalChunk(r.body)
  /\ r.existingStory # None /\ r.chunkTracker # None

\* C23: applying a chunk is not idempotent.  A chunk with a non-zero,
\* non-final index submitted while the session is open is accepted whether or
\* not that index was applied before: its content is appended (again) to the
\* story and to the tracker and receivedChunks grows by one (again), so that
\* receivedChunks can exceed totalChunks.
C23_ResubmittedChunkAppliesAgain ==
  \A p \in Procs :
    AnsweredMiddleChunk(req[p])
      => LET r == req[p]
             read == The(r.chunkTracker)
         IN /\ r.status = 200
            /\ story[r.storyId].content
                 = (IF r.op = "createStory" THEN The(r.existingStory).content ELSE read.content)
                     \o r.body.content
            /\ storyChunk[r.storyId].content = read.content \o r.body.content
            /\ storyChunk[r.storyId].receivedChunks = read.receivedChunks + 1

\* The same middle index has been applied so often that the tracker counts
\* more chunks than the upload declared.
C23_Witness ==
  \E p \in Procs :
    /\ AnsweredMiddleChunk(req[p]) /\ req[p].status = 200
    /\ The(req[p].chunkTracker).receivedChunks > ChunkIndex(req[p].body)
    /\ storyChunk[req[p].storyId].receivedChunks > storyChunk[req[p].storyId].totalChunks
    /\ Len(story[req[p].storyId].content) > storyChunk[req[p].storyId].totalChunks

\* The columns of a story row that differ between two versions of it.
ChangedColumns(old, new) == {f \in DOMAIN old : new[f] # old[f]}

\* A chunk request with a non-zero, non-final index.
MiddleChunk(r) ==
  ChunkRequest(r) /\ ChunkIndex(r.body) > 0 /\ ~IsFinalChunk(r.body)

C24_MiddleChunkStep(p) ==
  (Stepped(p) /\ MiddleChunk(req'[p]))
    => /\ DOMAIN story' = DOMAIN story
       /\ \A sid \in DOMAIN story :
            ChangedColumns(story[sid], story'[sid])
              \subseteq (IF req'[p].op = "createStory"
                           THEN {"content"}
                           ELSE {"content", "isComplete"})

\* C24: a chunk with a non-zero, non-final index leaves the story's title,
\* image, audio and audioDuration as they were, also when the request
\* carries values for them: it writes the content and, on the edit path, the
\* completion flag, and nothing else.
C24_MiddleChunkKeepsMedia == [][\A p \in Procs : C24_MiddleChunkStep(p)]_vars

\* An accepted middle chunk that carried a new title and a new image.
C24_Witness ==
  \E p \in Procs :
    /\ Accepted(p) /\ MiddleChunk(req[p])
    /\ Has(req[p].body, "title") /\ Has(req[p].body, "image")
    /\ LET row == story[req[p].storyId]
           was == The(req[p].existingStory)
       IN /\ row.title = was.title /\ row.title # req[p].body.title
          /\ row.image = was.image /\ row.image # req[p].body.image
          /\ row.content # was.content

\* A non-chunked editStory request.
PlainEdit(r) == r.op = "editStory" /\ ~IsChunk(r.body)

C25_PlainEditStep(p) ==
  (Stepped(p) /\ PlainEdit(req'[p]))
    => /\ storyChunk' = storyChunk
       /\ req'[p].chunkTracker = None
       /\ DOMAIN story' = DOMAIN story
       /\ \A sid \in DOMAIN story : story'[sid].isComplete = story[sid].isComplete

\* C25: a non-chunked editStory neither reads nor writes the tracker and
\* leaves the story's isComplete as it was, whatever the state of an upload
\* session on that story.
C25_PlainEditBypassesTracker == [][\A p \in Procs : C25_PlainEditStep(p)]_vars

\* A non-chunked edit accepted on a story whose upload session is open.
C25_Witness ==
  \E p \in Procs :
    /\ Accepted(p) /\ PlainEdit(req[p])
    /\ req[p].writes = <<"story">>
    /\ req[p].storyId \in DOMAIN storyChunk
    /\ ~storyChunk[req[p].storyId].isComplete
    /\ ~story[req[p].storyId].isComplete
    /\ story[req[p].storyId].content = req[p].body.content
    /\ story[req[p].storyId].content # storyChunk[req[p].storyId].content

ChurnFirstBodies ==
  {[content |-> "x"],
   [isChunk |-> TRUE, chunkIndex |-> 0, totalChunks |-> MaxTotalChunks, content |-> "x"]}

ChurnEditBodies ==
  {[isChunk |-> TRUE, chunkIndex |-> i, totalChunks |-> MaxTotalChunks, content |-> "a"] :
     i \in 0..(MaxTotalChunks - 1)}

ChurnChunkBodies ==
  {b @@ [storyId |-> OwnerStory] : b \in {e \in ChurnEditBodies : e.chunkIndex > 0}}

\* The first story has been created (and may be gone again).
ChurnStarted == nextId > OwnerStory

ChurnOpens(p) ==
  /\ IdsLeft
  /\ ReceiveCreateOf(p, {Owner}, ChurnFirstBodies, MaxChurnRequests)

ChurnCreates(p) ==
  /\ ChurnStarted
  /\ ReceiveCreateOf(p, {Owner}, ChurnChunkBodies, MaxChurnRequests)

ChurnEdits(p) ==
  /\ ChurnStarted
  /\ ReceiveEditOf(p, {Owner}, {OwnerStory}, ChurnEditBodies, MaxChurnRequests)

ChurnDeletes(p) ==
  /\ ChurnStarted
  /\ ReceiveDeleteOf(p, {Owner}, {OwnerStory}, MaxChurnRequests)

NextChurn ==
  \E p \in RaceProcs :
    \/ ChurnOpens(p)
    \/ CsCreate(p)
    \/ CsCreateFirst(p)
    \/ CsCreateTracker(p)
    \/ ChurnCreates(p)
    \/ CsFindStory(p)
    \/ CsFindTracker(p)
    \/ CsUpdateStory(p)
    \/ CsUpdateTracker(p)
    \/ ChurnEdits(p)
    \/ EsFindStory(p)
    \/ EsFindTracker0(p)
    \/ EsWriteTracker0(p)
    \/ EsUpdateStory0(p)
    \/ EsFindTracker(p)
    \/ EsUpdateTracker(p)
    \/ EsUpdateStory(p)
    \/ ChurnDeletes(p)
    \/ DsFindStory(p)
    \/ DsTransaction(p)

SpecChurn == InitRace /\ [][NextChurn]_vars

\* The ids handed out so far.
Issued == 1..(nextId - 1)

C27_ChurnStep ==
  /\ DOMAIN storyChunk' \subseteq DOMAIN story'
  /\ \A sid \in Issued : sid \notin DOMAIN story => sid \notin DOMAIN story'

\* C27: under concurrent createStory, editStory and deleteStory requests
\* every tracker belongs to a story that exists (the tracker's storyId is a
\* foreign key), and a story that was deleted never comes back.
C27_TrackersHaveStories == [][C27_ChurnStep]_vars

\* A deletion has been served between the two writes of an upload's chunk 0:
\* the tracker was refused, and the story stays gone.
C27_Witness ==
  \E p, q \in RaceProcs :
    /\ Done(p) /\ ChunkOf(req[p], "createStory") /\ ChunkIndex(req[p].body) = 0
    /\ req[p].status = 500 /\ req[p].writes = <<"story">>
    /\ Done(q) /\ req[q].op = "deleteStory" /\ req[q].status = 200
    /\ req[q].storyId = req[p].created
    /\ req[p].created \notin DOMAIN story
    /\ req[p].created \notin DOMAIN storyChunk

(***************************************************************************)
(* Requests that are refused: the author and a caller whose token is valid *)
(* but who has no student record submit creations and edits, valid and     *)
(* invalid, some edits naming the image and audio they replace.            *)
(***************************************************************************)
Stranger == "zoe"

Replaced == [imageBeforeChange |-> "old.png", audioBeforeChange |-> "old.mp3"]

RefusalEditBodies ==
  EditBodies \cup {b @@ Replaced : b \in {e \in ChunkBodies \cup PlainBodies : e.content = "a"}}

RefusalCreates(p) ==
  /\ Quiet(p)
  /\ ReceiveCreateOf(p, {Owner, Stranger}, CreateBodies, MaxRefusalRequests)

RefusalEdits(p) ==
  /\ Quiet(p)
  /\ ReceiveEditOf(p, {Owner, Stranger}, StoryIds, RefusalEditBodies, MaxRefusalRequests)

NextRefusal ==
  \E p \in Procs :
    \/ RefusalCreates(p)
    \/ CsCreate(p)
    \/ CsCreateFirst(p)
    \/ CsCreateTracker(p)
    \/ CsFindStory(p)
    \/ CsFindTracker(p)
    \/ CsUpdateStory(p)
    \/ CsUpdateTracker(p)
    \/ RefusalEdits(p)
    \/ EsFindStory(p)
    \/ EsUpdate(p)
    \/ EsFindTracker0(p)
    \/ EsWriteTracker0(p)
    \/ EsUpdateStory0(p)
    \/ EsFindTracker(p)
    \/ EsUpdateTracker(p)
    \/ EsUpdateStory(p)

SpecRefusal == Init /\ [][NextRefusal]_vars

\* A createStory or editStory request answered 400, 403 or 404.
Refused(r) ==
  r.pc = "done" /\ r.op \in {"createStory", "editStory"} /\ r.status \in {400, 403, 404}

C28_RefusalStep(p) ==
  (Stepped(p) /\ Refused(req'[p]))
    => /\ story' = story
       /\ storyChunk' = storyChunk
       /\ req'[p].writes = <<>>

\* C28: in a serial execution, a createStory or editStory request answered
\* 400, 403 or 404 has written nothing: every story and every tracker is as
\* it was when the request arrived.
C28_RefusalWritesNothing == [][\A p \in Procs : C28_RefusalStep(p)]_vars

\* A caller without a student record has been refused with 403 while a
\* story with a tracker exists.
C28_Witness ==
  \E p \in Procs :
    /\ Refused(req[p]) /\ req[p].status = 403 /\ req[p].user = Stranger
    /\ req[p].writes = <<>>
    /\ DOMAIN storyChunk # {}

\* C29: editStory hands imageBeforeChange and audioBeforeChange to
\* deleteSingleObjectFromS3 only in requests that go on to update the story:
\* a request that is refused (story not found or not owned, missing tracker
\* on a non-zero chunk, no update fields) has deleted no stored object.
C29_RefusedEditDeletesNothing ==
  \A p \in Procs :
    (Refused(req[p]) /\ req[p].op = "editStory") => req[p].deleted = {}

\* Every row of the table is still there, unchanged.
Kept(old, new) == \A sid \in DOMAIN old : sid \in DOMAIN new /\ new[sid] = old[sid]

C30_FirstChunkStep(p) ==
  (Stepped(p) /\ ChunkOf(req'[p], "createStory") /\ ChunkIndex(req'[p].body) = 0)
    => /\ Kept(story, story')
       /\ Kept(storyChunk, storyChunk')
       /\ (req[p].pc = "cs_createFirst" /\ req'[p].pc = "cs_createTracker")
            => /\ req'[p].created \notin DOMAIN story
               /\ DOMAIN story' = DOMAIN story \cup {req'[p].created}
       /\ (req'[p].pc = "done" /\ req'[p].status = 201)
            => /\ req'[p].created \notin DOMAIN storyChunk
               /\ DOMAIN storyChunk' = DOMAIN storyChunk \cup {req'[p].created}
               /\ req'[p].created \in DOMAIN story'
               /\ req'[p].writes = <<"story", "storyChunk">>

\* C30: an accepted createStory chunk with chunkIndex = 0 creates one new
\* story and one new tracker, whatever storyId it carries, and changes no
\* story and no tracker that existed.
C30_FirstChunkAlwaysCreates == [][\A p \in Procs : C30_FirstChunkStep(p)]_vars

\* Chunk 0 naming the author's own open upload has been accepted: a second
\* story exists, and the one named is as it was.
C30_Witness ==
  \E p \in Procs :
    /\ Accepted(p) /\ ChunkOf(req[p], "createStory") /\ ChunkIndex(req[p].body) = 0
    /\ LET named == BodyStoryId(req[p].body) IN
         /\ named \in DOMAIN story /\ named \in DOMAIN storyChunk
         /\ named # req[p].created
         /\ story[named].studentId = req[p].user
         /\ ~story[named].isComplete
         /\ req[p].created \in DOMAIN story /\ req[p].created \in DOMAIN storyChunk

=============================================================================
